---- MODULE Spec2Model ----
(***************************************************************************)
(* A model of the SQLite access layer of the MEGA SDK (src/db/sqlite.cpp): *)
(* SqliteDbAccess::open, the factory that creates the four tables and      *)
(* provisions the two handle keys, and SqliteDbTable, the per-account      *)
(* table object with its scalar slots, node / user / pcr rows, its single  *)
(* cursor statement pStmt and its BEGIN / COMMIT / ROLLBACK bracket.       *)
(*                                                                         *)
(* The SQL engine is modelled by what the statements of the source do:     *)
(* a table is a set of rows, INSERT OR REPLACE removes the rows with the   *)
(* same primary key and adds the new one, a table scan walks the rows in   *)
(* rowid order, a statement outside BEGIN commits at once, ROLLBACK brings *)
(* back the committed content.  A statement naming a table that does not   *)
(* exist fails and changes nothing.                                        *)
(***************************************************************************)
EXTENDS Integers, Sequences, FiniteSets, TLC

\* ---------------------------------------------------------------- bounds
MaxHandle == 2      \* node, user and pcr handles are 1..MaxHandle
MaxStmts == 2       \* un-finalized statements of a kind a connection may hold

\* ------------------------------------------------------------ value sets
NULL == "NULL"                       \* SQL NULL / a null pointer / db == NULL
Handles == 1..MaxHandle
ParentHandles == 0..MaxHandle        \* 0: a parent that is no stored node
Payloads == {"", "p1", "p2"}         \* serialized blobs, the empty one included
Fingerprints == {"", "f1"}           \* "" is the empty string passed for a folder
AttrStrings == {NULL, "", "a"}       \* attr may be a null pointer
ShareStates == 0..4
SlotIds == 0..5                      \* ids of the init table
HandleKeys == {"k1", "k2"}           \* blocks PrnGen::genblock may produce
OpenSteps == {"ok", "open", "check", "init", "nodes", "users", "pcrs", "slot4", "slot5"}

EmptyTables == [init |-> {}, nodes |-> {}, users |-> {}, pcrs |-> {}]
NoStmt == [sel |-> NULL, ph |-> 0, pos |-> 0]

VARIABLES
    schema,     \* the file holds the table `init` (what open()'s step 0 reads)
    disk,       \* the committed rows of the four tables of the file
    db,         \* "none": no Table object; "open": db != NULL; NULL: after remove()
    mem,        \* the rows as the connection sees them (its open transaction included)
    inTxn,      \* the connection is inside BEGIN .. COMMIT/ROLLBACK
    pStmt,      \* the cursor statement: selector, bound parent, last rowid stepped over
    stmts,      \* statements prepared into pStmt and not yet finalized
    leaked,     \* statements open() and readhkey() prepared and never finalized
    last,       \* the last call: its name, argument, return value and output
    atBegin,    \* history: the rows when the open transaction was begun
    bracket,    \* history: "clean" while only puts, deletes, truncates and reads
                \* followed a BEGIN that opened a transaction, "mixed" once a further
                \* BEGIN followed it; "aborted" / "aborted-mixed" right after the
                \* ROLLBACK that ended such a bracket; else "none"
    yielded,    \* history: what next()/nexthandle() returned since the last rewind
    stale       \* history: rows were written since the last rewind

vars == <<schema, disk, db, mem, inTxn, pStmt, stmts, leaked, last, atBegin, bracket, yielded, stale>>

\* ----------------------------------------------------------- the engine
\* INSERT OR REPLACE: the row replaces every row with the same primary key.
InsertOrReplaceDup(rows, key, row) == rows \cup {row}
InsertOrReplace(rows, key, row) == {r \in rows : r[key] # row[key]} \cup {row}

\* DELETE FROM t WHERE key = v
DeleteWhere(rows, key, v) == {r \in rows : r[key] # v}

\* The first row of a SELECT ... WHERE key = v, or no row.
RowsWhere(rows, key, v) == {r \in rows : r[key] = v}

\* Base64::btoa and PaddedCBC::encrypt of a generated key block, and
\* Base64::atob as readhkey applies it to the stored (still encrypted) content.
Btoa(k) == "b64:" \o k
Encrypt(s) == "cbc:" \o s
Atob(s) == IF \E k \in HandleKeys : Btoa(k) = s
           THEN CHOOSE k \in HandleKeys : Btoa(k) = s
           ELSE "junk"

\* A call's record in `last`.
Ret(op, arg, ret, data, val) ==
    [op |-> op, arg |-> arg, ret |-> ret, data |-> data, val |-> val]

\* A write statement that succeeded: the connection sees the new rows; outside
\* a transaction they are committed at once.
Exec(m) ==
    /\ mem' = m
    /\ disk' = IF inTxn THEN disk ELSE m

\* What a call that is no BEGIN, COMMIT or ROLLBACK does to the history of the
\* transaction, and what a call that leaves rows m does to the history of the
\* cursor. The history is kept only while it is of use: atBegin inside a clean
\* bracket and right after its ROLLBACK, yielded and stale while pStmt is set
\* and right after the step that finalized it.
TxnNote ==
    /\ bracket' = IF bracket \in {"aborted", "aborted-mixed"} THEN "none" ELSE bracket
    /\ atBegin' = IF bracket \in {"clean", "mixed"} THEN atBegin ELSE EmptyTables
Note(m) ==
    /\ TxnNote
    /\ yielded' = IF pStmt = NoStmt THEN <<>> ELSE yielded
    /\ stale' = (pStmt # NoStmt /\ (stale \/ m # mem))

\* ------------------------------------------------------------------ Init
Init ==
    /\ schema = FALSE
    /\ disk = EmptyTables
    /\ db = "none"
    /\ mem = EmptyTables
    /\ inTxn = FALSE
    /\ pStmt = NoStmt
    /\ stmts = 0
    /\ leaked = 0
    /\ last = Ret("new", 0, TRUE, NULL, 0)
    /\ atBegin = EmptyTables
    /\ bracket = "none"
    /\ yielded = <<>>
    /\ stale = FALSE

\* ------------------------------------------------------- the call shapes
\* `if (!db) return false;` and a statement whose step did not succeed: the
\* call reports failure and nothing else changes.
Refused(op, arg) ==
    /\ last' = Ret(op, arg, FALSE, NULL, 0)
    /\ Note(mem)
    /\ UNCHANGED <<schema, disk, db, mem, inTxn, pStmt, stmts, leaked>>

\* A put or delete on the table named t whose statement stepped to SQLITE_DONE,
\* leaving that table with `rows`. val: the rows with the call's key before it.
Wrote(op, t, key, arg, data, rows) ==
    /\ Exec([mem EXCEPT ![t] = rows])
    /\ Note([mem EXCEPT ![t] = rows])
    /\ last' = Ret(op, arg, TRUE, data, Cardinality(RowsWhere(mem[t], key, arg)))
    /\ UNCHANGED <<schema, db, inTxn, pStmt, stmts, leaked>>

\* A read: only its result is new.
Read(r) ==
    /\ last' = r
    /\ Note(mem)
    /\ UNCHANGED <<schema, disk, db, mem, inTxn, pStmt, stmts, leaked>>

\* The result of a SELECT of one column by key: the row's column, or no row.
Got(op, arg, rows, col) ==
    IF rows = {}
    THEN Ret(op, arg, FALSE, NULL, 0)
    ELSE Ret(op, arg, TRUE, (CHOOSE r \in rows : TRUE)[col], 0)

\* --------------------------------------------------------- scalar slots
putscsn(data, done) ==
    /\ db # "none"
    /\ IF db = NULL \/ ~done
       THEN Refused("putscsn", 0)
       ELSE Wrote("putscsn", "init", "id", 0, data,
                  InsertOrReplace(mem.init, "id", [id |-> 0, content |-> data]))

putrootnodeSlot0(index, data, done) ==
    /\ db # "none"
    /\ IF db = NULL \/ ~done
       THEN Refused("putrootnode", index)
       ELSE Wrote("putrootnode", "init", "id", index, data,
                  InsertOrReplace(mem.init, "id", [id |-> 0, content |-> data]))

putrootnode(index, data, done) ==
    /\ db # "none"
    /\ IF db = NULL \/ ~done
       THEN Refused("putrootnode", index)
       ELSE Wrote("putrootnode", "init", "id", index, data,
                  InsertOrReplace(mem.init, "id", [id |-> index, content |-> data]))

getscsn ==
    /\ db # "none"
    /\ IF db = NULL
       THEN Refused("getscsn", 0)
       ELSE Read(Got("getscsn", 0, RowsWhere(mem.init, "id", 0), "content"))

getrootnode(index) ==
    /\ db # "none"
    /\ IF db = NULL
       THEN Refused("getrootnode", index)
       ELSE Read(Got("getrootnode", index, RowsWhere(mem.init, "id", index), "content"))

\* readhkey(): the statement that read slot 4 is reset and its pointer overwritten
\* by the prepare for slot 5; only the second statement is finalized.
readhkeyProvisioning ==
    /\ db # "none"
    /\ IF db = NULL
       THEN Refused("readhkey", 0)
       ELSE LET key4 == [id |-> 4, content |-> Encrypt(Btoa("k1"))]
                key5 == [id |-> 5, content |-> Encrypt(Btoa("k2"))]
                with4 == IF RowsWhere(mem.init, "id", 4) = {}
                         THEN mem.init \cup {key4} ELSE mem.init
                with5 == IF RowsWhere(with4, "id", 5) = {}
                         THEN with4 \cup {key5} ELSE with4
            IN  /\ leaked < MaxStmts
                /\ last' = Ret("readhkey", 0, TRUE, NULL, 0)
                /\ leaked' = leaked + 1
                /\ Exec([mem EXCEPT !.init = with5])
                /\ Note([mem EXCEPT !.init = with5])
                /\ UNCHANGED <<schema, db, inTxn, pStmt, stmts>>

readhkey ==
    /\ db # "none"
    /\ IF db = NULL
       THEN Refused("readhkey", 0)
       ELSE LET r4 == RowsWhere(mem.init, "id", 4)
                r5 == RowsWhere(mem.init, "id", 5)
            IN  /\ r4 # {} => leaked < MaxStmts
                /\ last' = IF r4 = {} \/ r5 = {}
                            THEN Ret("readhkey", 0, FALSE, NULL, 0)
                            ELSE Ret("readhkey", 0, TRUE,
                                     Atob((CHOOSE r \in r4 : TRUE).content) \o ","
                                       \o Atob((CHOOSE r \in r5 : TRUE).content), 0)
                /\ leaked' = IF r4 = {} THEN leaked ELSE leaked + 1
                /\ Note(mem)
                /\ UNCHANGED <<schema, disk, db, mem, inTxn, pStmt, stmts>>

\* ----------------------------------------------------------------- nodes
NodeRowKeepEmptyFp(h, ph, fp, attr, shared, node) ==
    [nodehandle |-> h, parenthandle |-> ph, fingerprint |-> fp,
     attrstring |-> attr, shared |-> shared, node |-> node]
NodeRow(h, ph, fp, attr, shared, node) ==
    [nodehandle |-> h, parenthandle |-> ph,
     fingerprint |-> IF fp = "" THEN NULL ELSE fp,
     attrstring |-> attr, shared |-> shared, node |-> node]

putnodeNoDbCheck(h, ph, fp, attr, shared, node, done) ==
    /\ db # "none"
    /\ IF ~done
       THEN Refused("putnode", h)
       ELSE Wrote("putnode", "nodes", "nodehandle", h, node,
                  InsertOrReplace(mem.nodes, "nodehandle",
                                  NodeRow(h, ph, fp, attr, shared, node)))

putnode(h, ph, fp, attr, shared, node, done) ==
    /\ db # "none"
    /\ IF db = NULL \/ ~done
       THEN Refused("putnode", h)
       ELSE Wrote("putnode", "nodes", "nodehandle", h, node,
                  InsertOrReplace(mem.nodes, "nodehandle",
                                  NodeRow(h, ph, fp, attr, shared, node)))

delnode(h, done) ==
    /\ db # "none"
    /\ IF db = NULL \/ ~done
       THEN Refused("delnode", h)
       ELSE Wrote("delnode", "nodes", "nodehandle", h, NULL,
                  DeleteWhere(mem.nodes, "nodehandle", h))

getnodebyhandle(h) ==
    /\ db # "none"
    /\ IF db = NULL
       THEN Refused("getnodebyhandle", h)
       ELSE Read(Got("getnodebyhandle", h, RowsWhere(mem.nodes, "nodehandle", h), "node"))

\* SELECT node FROM nodes WHERE fingerprint = ?: the first row in rowid order; a
\* NULL fingerprint equals nothing.
getnodebyfingerprint(fp) ==
    /\ db # "none"
    /\ IF db = NULL
       THEN Refused("getnodebyfingerprint", 0)
       ELSE LET rows == {r \in mem.nodes : r.fingerprint # NULL /\ r.fingerprint = fp}
                first == {r \in rows : \A q \in rows : r.nodehandle <= q.nodehandle}
            IN  Read(Got("getnodebyfingerprint", 0, first, "node"))

\* The three SELECT COUNT(*) queries.
NumChildren(ph) == Cardinality({r \in mem.nodes : r.parenthandle = ph})
NumChildFiles(ph) ==
    Cardinality({r \in mem.nodes : r.parenthandle = ph /\ r.fingerprint # NULL})
NumChildFoldersEmptyFp(ph) ==
    Cardinality({r \in mem.nodes : r.parenthandle = ph /\ r.fingerprint = ""})
NumChildFolders(ph) ==
    Cardinality({r \in mem.nodes : r.parenthandle = ph /\ r.fingerprint = NULL})

getnumchildrenquery(ph) ==
    /\ db # "none"
    /\ IF db = NULL
       THEN Refused("getnumchildrenquery", ph)
       ELSE Read(Ret("getnumchildrenquery", ph, TRUE, NULL, NumChildren(ph)))

getnumchildfilesquery(ph) ==
    /\ db # "none"
    /\ IF db = NULL
       THEN Refused("getnumchildfilesquery", ph)
       ELSE Read(Ret("getnumchildfilesquery", ph, TRUE, NULL, NumChildFiles(ph)))

getnumchildfoldersquery(ph) ==
    /\ db # "none"
    /\ IF db = NULL
       THEN Refused("getnumchildfoldersquery", ph)
       ELSE Read(Ret("getnumchildfoldersquery", ph, TRUE, NULL, NumChildFolders(ph)))

\* -------------------------------------------------------- users and pcrs
putuser(userhandle, user, done) ==
    /\ db # "none"
    /\ IF db = NULL \/ ~done
       THEN Refused("putuser", userhandle)
       ELSE Wrote("putuser", "users", "userhandle", userhandle, user,
                  InsertOrReplace(mem.users, "userhandle",
                                  [userhandle |-> userhandle, user |-> user]))

putpcrIgnore(id, pcr, done) ==
    /\ db # "none"
    /\ IF db = NULL \/ ~done
       THEN Refused("putpcr", id)
       ELSE Wrote("putpcr", "pcrs", "id", id, pcr,
                  IF RowsWhere(mem.pcrs, "id", id) = {}
                  THEN mem.pcrs \cup {[id |-> id, pcr |-> pcr]}
                  ELSE mem.pcrs)

putpcr(id, pcr, done) ==
    /\ db # "none"
    /\ IF db = NULL \/ ~done
       THEN Refused("putpcr", id)
       ELSE Wrote("putpcr", "pcrs", "id", id, pcr,
                  InsertOrReplace(mem.pcrs, "id", [id |-> id, pcr |-> pcr]))

delpcr(id, done) ==
    /\ db # "none"
    /\ IF db = NULL \/ ~done
       THEN Refused("delpcr", id)
       ELSE Wrote("delpcr", "pcrs", "id", id, NULL, DeleteWhere(mem.pcrs, "id", id))

\* ---------------------------------------------------------------- cursor
\* The WHERE clause of each cursor statement. AND binds tighter than OR.
Selected(sel, ph, r) ==
    CASE sel = "children" -> r.parenthandle = ph
      [] sel = "encryptednodes" -> r.attrstring # NULL
      [] sel = "outshares_ph" -> (r.parenthandle = ph /\ r.shared = 1) \/ r.shared = 4
      [] sel = "outshares" -> r.shared = 1 \/ r.shared = 4
      [] sel = "pendingshares_ph" -> (r.parenthandle = ph /\ r.shared = 3) \/ r.shared = 4
      [] sel = "pendingshares" -> r.shared = 3 \/ r.shared = 4
      [] OTHER -> TRUE

NodeSelectors == {"children", "encryptednodes", "outshares_ph", "outshares",
                  "pendingshares_ph", "pendingshares"}
Selectors == {"user", "pcr"} \cup NodeSelectors

\* The rows a cursor statement scans, each as <<rowid, selected column>>.
Scanned(sel, ph) ==
    CASE sel = "user" -> {<<r.userhandle, r.user>> : r \in mem.users}
      [] sel = "pcr" -> {<<r.id, r.pcr>> : r \in mem.pcrs}
      [] OTHER -> {<<r.nodehandle, r.nodehandle>> : r \in {q \in mem.nodes : Selected(sel, ph, q)}}

\* The rows sqlite3_step(pStmt) has still to visit: those after the last rowid.
Remaining == {x \in Scanned(pStmt.sel, pStmt.ph) : x[1] > pStmt.pos}
NextRow == CHOOSE x \in Remaining : \A y \in Remaining : x[1] <= y[1]

\* Every rewind*: the old statement, if any, is reset (not finalized) and a new
\* one is prepared into pStmt. A connection holds at most MaxStmts statements.
Prepare(sel, ph) ==
    /\ pStmt' = [sel |-> sel, ph |-> ph, pos |-> 0]
    /\ stmts' = stmts + 1

Rewound(op, sel, ph) ==
    /\ stmts < MaxStmts
    /\ Prepare(sel, ph)
    /\ yielded' = <<>>
    /\ stale' = FALSE
    /\ TxnNote
    /\ last' = Ret(op, ph, TRUE, NULL, 0)
    /\ UNCHANGED <<schema, disk, db, mem, inTxn, leaked>>

rewinduser ==
    /\ db # "none"
    /\ IF db = NULL
       THEN Refused("rewinduser", 0)
       ELSE Rewound("rewinduser", "user", 0)

rewindpcr ==
    /\ db # "none"
    /\ IF db = NULL
       THEN Refused("rewindpcr", 0)
       ELSE Rewound("rewindpcr", "pcr", 0)

rewindhandleschildren(ph) ==
    /\ db # "none"
    /\ IF db = NULL
       THEN Refused("rewindhandleschildren", ph)
       ELSE Rewound("rewindhandleschildren", "children", ph)

rewindhandlesencryptednodes ==
    /\ db # "none"
    /\ IF db = NULL
       THEN Refused("rewindhandlesencryptednodes", 0)
       ELSE Rewound("rewindhandlesencryptednodes", "encryptednodes", 0)

rewindhandlesoutshares_ph(ph) ==
    /\ db # "none"
    /\ IF db = NULL
       THEN Refused("rewindhandlesoutshares(ph)", ph)
       ELSE Rewound("rewindhandlesoutshares(ph)", "outshares_ph", ph)

rewindhandlesoutshares ==
    /\ db # "none"
    /\ IF db = NULL
       THEN Refused("rewindhandlesoutshares", 0)
       ELSE Rewound("rewindhandlesoutshares", "outshares", 0)

rewindhandlespendingshares_ph(ph) ==
    /\ db # "none"
    /\ IF db = NULL
       THEN Refused("rewindhandlespendingshares(ph)", ph)
       ELSE Rewound("rewindhandlespendingshares(ph)", "pendingshares_ph", ph)

rewindhandlespendingshares ==
    /\ db # "none"
    /\ IF db = NULL
       THEN Refused("rewindhandlespendingshares", 0)
       ELSE Rewound("rewindhandlespendingshares", "pendingshares", 0)

\* sqlite3_column_blob of an integer column is its decimal text; sqlite3_column_int64
\* of a blob that is no number is 0.
ColumnBlob(x) == IF pStmt.sel \in NodeSelectors THEN ToString(x[2]) ELSE x[2]
ColumnInt64(x) == IF pStmt.sel \in NodeSelectors THEN x[2] ELSE 0

\* The step of next() and nexthandle(): a row, or the statement is finalized.
\* `yielded` keeps each returned row: its rowid, and the blob or the handle returned.
\* The call that finalizes the statement is recorded with val = 1 and the
\* statement's selector and parent (a call that finds pStmt NULL: val = 0).
Yield(op, x) ==
    IF op = "next"
    THEN [row |-> x[1], data |-> ColumnBlob(x), val |-> 0]
    ELSE [row |-> x[1], data |-> NULL, val |-> ColumnInt64(x)]

StepKeepStmt(op) ==
    IF Remaining = {}
    THEN /\ pStmt' = pStmt
         /\ stmts' = stmts
         /\ yielded' = yielded
         /\ last' = Ret(op, pStmt.ph, FALSE, pStmt.sel, 1)
    ELSE /\ pStmt' = [pStmt EXCEPT !.pos = NextRow[1]]
         /\ stmts' = stmts
         /\ yielded' = Append(yielded, Yield(op, NextRow))
         /\ last' = Ret(op, 0, TRUE, Yield(op, NextRow).data, Yield(op, NextRow).val)
StepNoAdvance(op) ==
    IF Remaining = {}
    THEN /\ pStmt' = NoStmt
         /\ stmts' = stmts - 1
         /\ yielded' = yielded
         /\ last' = Ret(op, pStmt.ph, FALSE, pStmt.sel, 1)
    ELSE /\ pStmt' = IF Len(yielded) = 0 THEN pStmt ELSE [pStmt EXCEPT !.pos = NextRow[1]]
         /\ stmts' = stmts
         /\ yielded' = Append(yielded, Yield(op, NextRow))
         /\ last' = Ret(op, 0, TRUE, Yield(op, NextRow).data, Yield(op, NextRow).val)
Step(op) ==
    IF Remaining = {}
    THEN /\ pStmt' = NoStmt
         /\ stmts' = stmts - 1
         /\ yielded' = yielded
         /\ last' = Ret(op, pStmt.ph, FALSE, pStmt.sel, 1)
    ELSE /\ pStmt' = [pStmt EXCEPT !.pos = NextRow[1]]
         /\ stmts' = stmts
         /\ yielded' = Append(yielded, Yield(op, NextRow))
         /\ last' = Ret(op, 0, TRUE, Yield(op, NextRow).data, Yield(op, NextRow).val)

next ==
    /\ db # "none"
    /\ IF db = NULL \/ pStmt = NoStmt
       THEN Refused("next", 0)
       ELSE /\ Step("next")
            /\ TxnNote
            /\ UNCHANGED <<schema, disk, db, mem, inTxn, leaked, stale>>

nexthandle ==
    /\ db # "none"
    /\ IF db = NULL \/ pStmt = NoStmt
       THEN Refused("nexthandle", 0)
       ELSE /\ Step("nexthandle")
            /\ TxnNote
            /\ UNCHANGED <<schema, disk, db, mem, inTxn, leaked, stale>>

\* ---------------------------------------------------------- transactions
\* BEGIN inside a transaction, and COMMIT or ROLLBACK outside one, fail in the
\* engine; sqlite3_exec's result is not looked at.
beginCommitting ==
    /\ db # "none"
    /\ IF db = NULL
       THEN Refused("begin", 0)
       ELSE /\ inTxn' = TRUE
            /\ disk' = mem
            /\ atBegin' = IF inTxn THEN atBegin ELSE mem
            /\ bracket' = IF inTxn THEN "mixed" ELSE "clean"
            /\ yielded' = IF pStmt = NoStmt THEN <<>> ELSE yielded
            /\ stale' = (pStmt # NoStmt /\ stale)
            /\ last' = Ret("begin", 0, TRUE, NULL, 0)
            /\ UNCHANGED <<schema, db, mem, pStmt, stmts, leaked>>

begin ==
    /\ db # "none"
    /\ IF db = NULL
       THEN Refused("begin", 0)
       ELSE /\ inTxn' = TRUE
            /\ atBegin' = IF inTxn THEN atBegin ELSE mem
            /\ bracket' = IF inTxn THEN "mixed" ELSE "clean"
            /\ yielded' = IF pStmt = NoStmt THEN <<>> ELSE yielded
            /\ stale' = (pStmt # NoStmt /\ stale)
            /\ last' = Ret("begin", 0, TRUE, NULL, 0)
            /\ UNCHANGED <<schema, disk, db, mem, pStmt, stmts, leaked>>

commit ==
    /\ db # "none"
    /\ IF db = NULL
       THEN Refused("commit", 0)
       ELSE /\ inTxn' = FALSE
            /\ disk' = IF inTxn THEN mem ELSE disk
            /\ bracket' = "none"
            /\ atBegin' = EmptyTables
            /\ yielded' = IF pStmt = NoStmt THEN <<>> ELSE yielded
            /\ stale' = (pStmt # NoStmt /\ stale)
            /\ last' = Ret("commit", 0, TRUE, NULL, 0)
            /\ UNCHANGED <<schema, db, mem, pStmt, stmts, leaked>>

\* ROLLBACK: the connection sees the committed rows again. The record of abort()
\* tells in val whether that changed a row.
RollbackKeep == mem
Rollback == IF inTxn THEN disk ELSE mem

abort ==
    /\ db # "none"
    /\ IF db = NULL
       THEN Refused("abort", 0)
       ELSE /\ inTxn' = FALSE
            /\ mem' = Rollback
            /\ yielded' = IF pStmt = NoStmt THEN <<>> ELSE yielded
            /\ stale' = (pStmt # NoStmt /\ (stale \/ Rollback # mem))
            /\ bracket' = CASE inTxn /\ bracket = "clean" -> "aborted"
                             [] inTxn /\ bracket = "mixed" -> "aborted-mixed"
                             [] OTHER -> "none"
            /\ atBegin' = IF inTxn THEN atBegin ELSE EmptyTables
            /\ last' = Ret("abort", 0, TRUE, NULL, IF Rollback # mem THEN 1 ELSE 0)
            /\ UNCHANGED <<schema, disk, db, pStmt, stmts, leaked>>

\* ------------------------------------------------------------- lifecycle
\* sqlite3_exec(db, "DELETE FROM <t>"): the rows of t go, if the file has a table t.
DeleteFrom(m, t) == IF t \in DOMAIN m THEN [m EXCEPT ![t] = {}] ELSE m

TruncatedNodesOnly(m) == DeleteFrom(DeleteFrom(m, "scsn"), "nodes")
Truncated(m) ==
    DeleteFrom(DeleteFrom(DeleteFrom(DeleteFrom(m, "scsn"), "nodes"), "users"), "pcrs")

\* The record of truncate() tells in val how many node, user and pcr rows there were.
truncate ==
    /\ db # "none"
    /\ IF db = NULL
       THEN Refused("truncate", 0)
       ELSE /\ Exec(Truncated(mem))
            /\ Note(Truncated(mem))
            /\ last' = Ret("truncate", 0, TRUE, NULL,
                            Cardinality(mem.nodes) + Cardinality(mem.users)
                              + Cardinality(mem.pcrs))
            /\ UNCHANGED <<schema, db, inTxn, pStmt, stmts, leaked>>

\* What remove() and the destructor share: pStmt, if set, is finalized (and left
\* dangling), the open transaction is rolled back, sqlite3_close is called; it
\* answers SQLITE_BUSY (val = 1) while a statement of the connection is not
\* finalized. data tells whether the ROLLBACK took rows back.
Teardown(op) ==
    /\ stmts' = IF pStmt = NoStmt THEN stmts ELSE stmts - 1
    /\ inTxn' = FALSE
    /\ mem' = Rollback
    /\ last' = Ret(op, 0, TRUE, IF Rollback # mem THEN "rollback" ELSE NULL,
                    IF stmts' + leaked > 0 THEN 1 ELSE 0)
    /\ yielded' = <<>>
    /\ stale' = FALSE

\* ~SqliteDbTable(): the file stays; the object is gone. The history of a clean
\* bracket the destructor's abort() ended is kept as after abort().
destroyCommitting ==
    /\ db # "none"
    /\ IF db = NULL
       THEN /\ db' = "none"
            /\ pStmt' = NoStmt
            /\ last' = Ret("destroy", 0, FALSE, NULL, 0)
            /\ Note(mem)
            /\ UNCHANGED <<schema, disk, mem, inTxn, stmts, leaked>>
       ELSE /\ stmts' = IF pStmt = NoStmt THEN stmts ELSE stmts - 1
            /\ inTxn' = FALSE
            /\ mem' = mem
            /\ disk' = mem
            /\ last' = Ret("destroy", 0, TRUE, IF Rollback # mem THEN "rollback" ELSE NULL,
                            IF stmts' + leaked > 0 THEN 1 ELSE 0)
            /\ yielded' = <<>>
            /\ stale' = FALSE
            /\ bracket' = IF inTxn /\ bracket = "clean" THEN "aborted" ELSE "none"
            /\ atBegin' = IF inTxn /\ bracket = "clean" THEN atBegin ELSE EmptyTables
            /\ db' = "none"
            /\ pStmt' = NoStmt
            /\ schema' = schema
            /\ leaked' = leaked

destroy ==
    /\ db # "none"
    /\ IF db = NULL
       THEN /\ db' = "none"
            /\ pStmt' = NoStmt
            /\ last' = Ret("destroy", 0, FALSE, NULL, 0)
            /\ Note(mem)
            /\ UNCHANGED <<schema, disk, mem, inTxn, stmts, leaked>>
       ELSE /\ Teardown("destroy")
            /\ bracket' = IF inTxn /\ bracket = "clean" THEN "aborted" ELSE "none"
            /\ atBegin' = IF inTxn /\ bracket = "clean" THEN atBegin ELSE EmptyTables
            /\ db' = "none"
            /\ pStmt' = NoStmt
            /\ UNCHANGED <<schema, disk, leaked>>

\* FileSystemAccess::unlinklocal(dbfile): the backing file is deleted from
\* storage; a file of that name opened later is a new, empty one.
Unlinked == [schema |-> FALSE, disk |-> EmptyTables]

\* remove(): db = NULL and the file is unlinked.
removeKeepFile ==
    /\ db # "none"
    /\ IF db = NULL
       THEN Refused("remove", 0)
       ELSE /\ Teardown("remove")
            /\ bracket' = "none"
            /\ atBegin' = EmptyTables
            /\ db' = NULL
            /\ pStmt' = pStmt
            /\ schema' = schema
            /\ disk' = disk
            /\ leaked' = leaked

remove ==
    /\ db # "none"
    /\ IF db = NULL
       THEN Refused("remove", 0)
       ELSE /\ Teardown("remove")
            /\ bracket' = "none"
            /\ atBegin' = EmptyTables
            /\ db' = NULL
            /\ pStmt' = pStmt
            /\ schema' = Unlinked.schema
            /\ disk' = Unlinked.disk
            /\ leaked' = leaked

\* ------------------------------------------------------------------ open
\* SqliteDbAccess::open. failAt names the call of open() that fails ("ok": none
\* does); hk4 and hk5 are the blocks PrnGen::genblock produces. Each statement of
\* open() commits by itself. val tells whether the table `init` was there before
\* (1) or not (0). The statement that inserted slot 4 is reset and its pointer
\* overwritten by the prepare for slot 5: the connection of a Table returned
\* from a provisioning open() holds one statement nothing finalizes.
KeyRow(id, hk) == [id |-> id, content |-> Encrypt(Btoa(hk))]

\* Step 0: tableExists starts true and becomes false only when the query of
\* sqlite_master was prepared and stepped to SQLITE_DONE: a query that fails
\* ("check") leaves it true, and open() goes on.
TableExists(failAt) == failAt = "check" \/ schema

ProvisionedAlways(failAt) == failAt \in {"ok", "slot4", "slot5"}
Provisioned(failAt) == ~TableExists(failAt) /\ failAt \in {"ok", "slot4", "slot5"}

open(failAt, hk4, hk5) ==
    /\ db = "none"
    /\ failAt \in {"slot4", "slot5"} => ~schema
    /\ LET created == failAt \notin {"open", "init"}
           with4 == IF Provisioned(failAt) /\ failAt # "slot4"
                    THEN [disk EXCEPT !.init = InsertOrReplace(@, "id", KeyRow(4, hk4))]
                    ELSE disk
           with5 == IF Provisioned(failAt) /\ failAt = "ok"
                    THEN [with4 EXCEPT !.init = InsertOrReplace(@, "id", KeyRow(5, hk5))]
                    ELSE with4
       IN  /\ schema' = (schema \/ created)
           /\ disk' = with5
           /\ mem' = with5
           /\ db' = IF failAt \in {"ok", "check"} THEN "open" ELSE "none"
           /\ last' = Ret("open", 0, failAt \in {"ok", "check"}, NULL,
                           IF schema THEN 1 ELSE 0)
    /\ pStmt' = NoStmt
    /\ stmts' = 0
    /\ leaked' = IF Provisioned(failAt) /\ failAt = "ok" THEN 1 ELSE 0
    /\ inTxn' = FALSE
    /\ UNCHANGED <<atBegin, bracket, yielded, stale>>

\* -------------------------------------------------------- specifications
\* Each specification runs the calls one family of properties is about, with the
\* arguments drawn from the sets named in it.

\* The scalar slots: every id the init table can hold, two contents.
NextSlot ==
    \/ \E hk4 \in HandleKeys, hk5 \in HandleKeys : open("ok", hk4, hk5)
    \/ \E data \in {"p1", "p2"}, done \in BOOLEAN : putscsn(data, done)
    \/ \E index \in SlotIds, data \in {"p1", "p2"}, done \in BOOLEAN :
          putrootnode(index, data, done)
    \/ getscsn
    \/ \E index \in SlotIds : getrootnode(index)
    \/ truncate
    \/ destroy

SpecSlot == Init /\ [][NextSlot]_vars

\* Node rows of every shape, put, read and deleted outside a transaction.
NextNode ==
    \/ open("ok", "k1", "k2")
    \/ \E h \in Handles, ph \in {0, 1}, fp \in Fingerprints,
          as \in {<<NULL, 0>>, <<"a", 4>>}, node \in {"", "p1"}, done \in BOOLEAN :
          putnode(h, ph, fp, as[1], as[2], node, done)
    \/ \E h \in Handles, done \in BOOLEAN : delnode(h, done)
    \/ \E h \in Handles : getnodebyhandle(h)
    \/ \E fp \in Fingerprints : getnodebyfingerprint(fp)

SpecNode == Init /\ [][NextNode]_vars

\* The child counts, inside and outside transactions.
NextTree ==
    \/ open("ok", "k1", "k2")
    \/ \E h \in Handles, ph \in {0, 1}, fp \in Fingerprints :
          putnode(h, ph, fp, NULL, 0, "p1", TRUE)
    \/ \E h \in Handles : delnode(h, TRUE)
    \/ \E ph \in {0, 1} : getnumchildrenquery(ph)
    \/ \E ph \in {0, 1} : getnumchildfilesquery(ph)
    \/ \E ph \in {0, 1} : getnumchildfoldersquery(ph)
    \/ truncate
    \/ begin
    \/ commit
    \/ abort

SpecTree == Init /\ [][NextTree]_vars

\* Files and folders: each putnode passes, as the node's payload, whether its
\* fingerprint argument was empty ("folder") or not ("file").
NextFolder ==
    \/ open("ok", "k1", "k2")
    \/ \E h \in Handles, ph \in ParentHandles \ {MaxHandle}, fp \in Fingerprints,
          done \in BOOLEAN :
          putnode(h, ph, fp, NULL, 0, IF fp = "" THEN "folder" ELSE "file", done)
    \/ \E h \in Handles, done \in BOOLEAN : delnode(h, done)
    \/ \E ph \in ParentHandles : getnumchildrenquery(ph)
    \/ \E ph \in ParentHandles : getnumchildfilesquery(ph)
    \/ \E ph \in ParentHandles : getnumchildfoldersquery(ph)

SpecFolder == Init /\ [][NextFolder]_vars

\* The cursor: node rows under two parents, one user, and the rewinds over them.
NextCursor ==
    \/ open("ok", "k1", "k2")
    \/ \E h \in Handles, ph \in {0, 1} : putnode(h, ph, "", NULL, 4, "p1", TRUE)
    \/ \E h \in Handles : delnode(h, TRUE)
    \/ putuser(1, "p1", TRUE)
    \/ rewinduser
    \/ \E ph \in {0, 1} : rewindhandleschildren(ph)
    \/ \E ph \in {0, 1} : rewindhandlesoutshares_ph(ph)
    \/ next
    \/ nexthandle

SpecCursor == Init /\ [][NextCursor]_vars

\* The transaction bracket over all four tables.
NextTxn ==
    \/ open("ok", "k1", "k2")
    \/ \E h \in Handles : putnode(h, 0, "", NULL, 0, "p1", TRUE)
    \/ putuser(1, "p1", TRUE)
    \/ putpcr(1, "p1", TRUE)
    \/ putscsn("p1", TRUE)
    \/ putrootnode(1, "p1", TRUE)
    \/ \E h \in Handles : delnode(h, TRUE)
    \/ delpcr(1, TRUE)
    \/ truncate
    \/ begin
    \/ commit
    \/ abort
    \/ \E h \in Handles : getnodebyhandle(h)

SpecTxn == Init /\ [][NextTxn]_vars

\* truncate() and what is read after it: by handle, by count, by every cursor.
NextTruncate ==
    \/ open("ok", "k1", "k2")
    \/ \E h \in Handles : putnode(h, 1, "", "a", 4, "p1", TRUE)
    \/ putuser(1, "p1", TRUE)
    \/ putpcr(1, "p1", TRUE)
    \/ truncate
    \/ \E h \in Handles : getnodebyhandle(h)
    \/ getnumchildrenquery(1)
    \/ rewinduser
    \/ rewindpcr
    \/ rewindhandleschildren(1)
    \/ rewindhandlesencryptednodes
    \/ rewindhandlesoutshares_ph(1)
    \/ rewindhandlesoutshares
    \/ rewindhandlespendingshares_ph(1)
    \/ rewindhandlespendingshares
    \/ next
    \/ nexthandle

SpecTruncate == Init /\ [][NextTruncate]_vars

\* open(), with each of its calls past the freshness query failing or not, close
\* and reopen, remove().
NextOpen ==
    \/ \E failAt \in OpenSteps \ {"check"}, hk4 \in HandleKeys, hk5 \in HandleKeys :
          open(failAt, hk4, hk5)
    \/ readhkey
    \/ putrootnode(1, "p1", TRUE)
    \/ begin
    \/ commit
    \/ destroy
    \/ remove

SpecOpen == Init /\ [][NextOpen]_vars

\* open() with any one of its calls failing, the freshness query included, and
\* readhkey() on the Tables it returns, with a cursor or a transaction active.
NextOpenFail ==
    \/ \E failAt \in OpenSteps, hk4 \in HandleKeys, hk5 \in HandleKeys :
          open(failAt, hk4, hk5)
    \/ readhkey
    \/ getrootnode(4)
    \/ getrootnode(5)
    \/ putscsn("p1", TRUE)
    \/ putrootnode(5, "p1", TRUE)
    \/ putuser(1, "p1", TRUE)
    \/ rewinduser
    \/ next
    \/ begin
    \/ destroy
    \/ remove

SpecOpenFail == Init /\ [][NextOpenFail]_vars

\* A Table is opened and brought to a state with rows, a cursor and a transaction;
\* it is removed; then every call of the Table is made on the removed instance.
NextRemoved ==
    \/ open("ok", "k1", "k2")
    \/ db = "open" /\ putscsn("p1", TRUE)
    \/ db = "open" /\ putnode(1, 0, "f1", "a", 4, "p1", TRUE)
    \/ db = "open" /\ putuser(1, "p1", TRUE)
    \/ db = "open" /\ rewinduser
    \/ db = "open" /\ rewindhandleschildren(0)
    \/ db = "open" /\ nexthandle
    \/ db = "open" /\ begin
    \/ remove
    \/ destroy
    \/ db = NULL /\ putscsn("p1", TRUE)
    \/ db = NULL /\ putrootnode(1, "p1", TRUE)
    \/ db = NULL /\ getscsn
    \/ db = NULL /\ getrootnode(1)
    \/ db = NULL /\ readhkey
    \/ db = NULL /\ putnode(1, 0, "f1", "a", 4, "p1", TRUE)
    \/ db = NULL /\ delnode(1, TRUE)
    \/ db = NULL /\ getnodebyhandle(1)
    \/ db = NULL /\ getnodebyfingerprint("f1")
    \/ db = NULL /\ getnumchildrenquery(0)
    \/ db = NULL /\ getnumchildfilesquery(0)
    \/ db = NULL /\ getnumchildfoldersquery(0)
    \/ db = NULL /\ putuser(1, "p1", TRUE)
    \/ db = NULL /\ putpcr(1, "p1", TRUE)
    \/ db = NULL /\ delpcr(1, TRUE)
    \/ db = NULL /\ rewinduser
    \/ db = NULL /\ rewindpcr
    \/ db = NULL /\ rewindhandleschildren(0)
    \/ db = NULL /\ rewindhandlesencryptednodes
    \/ db = NULL /\ rewindhandlesoutshares_ph(0)
    \/ db = NULL /\ rewindhandlesoutshares
    \/ db = NULL /\ rewindhandlespendingshares_ph(0)
    \/ db = NULL /\ rewindhandlespendingshares
    \/ db = NULL /\ next
    \/ db = NULL /\ nexthandle
    \/ db = NULL /\ begin
    \/ db = NULL /\ commit
    \/ db = NULL /\ abort
    \/ db = NULL /\ truncate

SpecRemoved == Init /\ [][NextRemoved]_vars

\* The exits: a Table with node rows and a scalar slot, a cursor (rewound over at
\* will) and a transaction is destroyed or removed, and the store is opened again.
NextTeardown ==
    \/ \E hk4 \in HandleKeys : open("ok", hk4, "k2")
    \/ \E h \in Handles : putnode(h, 0, "", NULL, 0, "p1", TRUE)
    \/ putscsn("p1", TRUE)
    \/ begin
    \/ commit
    \/ rewindhandleschildren(0)
    \/ nexthandle
    \/ destroy
    \/ remove

SpecTeardown == Init /\ [][NextTeardown]_vars

\* The pending contact requests: put, deleted and walked by the pcr cursor. The
\* DELETE statement steps to SQLITE_DONE here, with or without a row to delete.
NextPcr ==
    \/ open("ok", "k1", "k2")
    \/ \E id \in Handles, pcr \in {"p1", "p2"}, done \in BOOLEAN : putpcr(id, pcr, done)
    \/ \E id \in Handles : delpcr(id, TRUE)
    \/ rewindpcr
    \/ next

SpecPcr == Init /\ [][NextPcr]_vars

\* ------------------------------------------------------------ properties

\* C1: after a successful putnode(h, .., p) the nodes table holds exactly one row
\* for h, whatever row h had before, and a getnodebyhandle(h) that follows it
\* returns true with exactly p.
C1_PutNodeRoundTrip ==
    [][/\ (last'.op = "putnode" /\ last'.ret)
            => Cardinality(RowsWhere(mem'.nodes, "nodehandle", last'.arg)) = 1
       /\ (last.op = "putnode" /\ last.ret
             /\ last'.op = "getnodebyhandle" /\ last'.arg = last.arg)
            => (last'.ret /\ last'.data = last.data)]_vars

\* C1 witness: a getnodebyhandle(h) returned the payload of a putnode that had
\* replaced an older row of h ... the put that overwrote is the state before; here
\* the put itself: it succeeded on a handle that already had a row.
C1_Witness ==
    /\ last.op = "putnode"
    /\ last.ret
    /\ last.val = 1
    /\ last.data = "p1"

\* C2: the scalar slots 0..3 are an upsert map: a get that follows a successful
\* put to the same slot returns exactly the bytes put; a slot holds at most one
\* row; a get of a slot with no row returns absent; a slot that has no row after
\* a fresh open gets one only by a put to it; a put changes no other slot.
SlotPuts == {"putscsn", "putrootnode"}
SlotGets == {"getscsn", "getrootnode"}
Slot(m, i) == RowsWhere(m.init, "id", i)

C2_SlotsAreUpsertMap ==
    [][/\ (last.op \in SlotPuts /\ last.ret /\ last.arg \in 0..3
             /\ last'.op \in SlotGets /\ last'.arg = last.arg)
            => (last'.ret /\ last'.data = last.data)
       /\ (last'.op \in SlotPuts /\ last'.ret)
            => /\ Cardinality(Slot(mem', last'.arg)) = 1
               /\ \A j \in SlotIds \ {last'.arg} : Slot(mem', j) = Slot(mem, j)
       /\ (last'.op \in SlotGets /\ db = "open" /\ Slot(mem, last'.arg) = {})
            => ~last'.ret
       /\ (last'.op = "open" /\ last'.ret /\ ~schema)
            => \A i \in 0..3 : Slot(mem', i) = {}
       /\ \A i \in 0..3 :
            (Slot(mem', i) # Slot(mem, i))
              => (last'.op \in SlotPuts /\ last'.ret /\ last'.arg = i)]_vars

\* C2 witness: a put replaced the content of a slot in 0..3 that held a row.
C2_Witness ==
    /\ last.op = "putrootnode"
    /\ last.ret
    /\ last.arg = 2
    /\ last.val = 1
    /\ Slot(mem, 0) # {}

\* C3: for every parent handle the count of getnumchildrenquery is the sum of the
\* counts of getnumchildfilesquery and getnumchildfoldersquery, in every state
\* reached by putnode, delnode, truncate, begin, commit and abort; so is the
\* count each of the three calls has just returned.
C3_CountsAdd ==
    db = "open" =>
      /\ \A ph \in ParentHandles :
            NumChildren(ph) = NumChildFiles(ph) + NumChildFolders(ph)
      /\ last.op = "getnumchildrenquery"
            => (last.ret /\ last.val = NumChildFiles(last.arg) + NumChildFolders(last.arg))
      /\ last.op = "getnumchildfilesquery"
            => (last.ret /\ NumChildren(last.arg) = last.val + NumChildFolders(last.arg))
      /\ last.op = "getnumchildfoldersquery"
            => (last.ret /\ NumChildren(last.arg) = NumChildFiles(last.arg) + last.val)

\* C3 witness: inside a transaction, a parent with one file and one folder was counted.
C3_Witness ==
    /\ last.op = "getnumchildrenquery"
    /\ last.val = 2
    /\ NumChildFiles(last.arg) = 1
    /\ NumChildFolders(last.arg) = 1
    /\ inTxn

\* C4: when nexthandle() exhausts a cursor started by rewindhandleschildren(P),
\* with no row written since the rewind and only nexthandle() calls on it, the
\* handles returned are exactly those of the rows with parent P, each once; the
\* statement is gone, and every nexthandle() with no statement returns false and
\* changes nothing.
ViaNextHandle(y) == \A i \in 1..Len(y) : y[i].data = NULL
HandlesOf(y) == {y[i].val : i \in 1..Len(y)}
ChildrenOf(m, ph) == {r.nodehandle : r \in {q \in m.nodes : q.parenthandle = ph}}

C4_ChildrenCursor ==
    [][/\ (last'.op = "nexthandle" /\ ~last'.ret /\ last'.val = 1
             /\ last'.data = "children" /\ ~stale' /\ ViaNextHandle(yielded'))
            => /\ HandlesOf(yielded') = ChildrenOf(mem', last'.arg)
               /\ Cardinality(HandlesOf(yielded')) = Len(yielded')
               /\ pStmt' = NoStmt
       /\ (db = "open" /\ pStmt = NoStmt /\ last'.op = "nexthandle")
            => (~last'.ret /\ pStmt' = NoStmt /\ mem' = mem /\ disk' = disk)]_vars

\* C4 witness: a children cursor started over another, still active cursor (whose
\* statement is still counted) returned two handles and was exhausted.
C4_Witness ==
    /\ last.op = "nexthandle"
    /\ ~last.ret
    /\ last.val = 1
    /\ last.data = "children"
    /\ ~stale
    /\ ViaNextHandle(yielded)
    /\ Len(yielded) = 2
    /\ stmts = 1

\* C5: abort() ending a bracket that begin() opened (no transaction was open) and
\* that held only puts, deletes, truncates and reads leaves the four tables, as
\* the connection sees them and as committed, as they were at that begin(); a
\* getnodebyhandle that follows reports a handle absent that was absent then.
C5_AbortRestores ==
    [][/\ (last'.op = "abort" /\ bracket' = "aborted")
            => (mem' = atBegin' /\ disk' = atBegin')
       /\ (bracket = "aborted" /\ last'.op = "getnodebyhandle"
             /\ RowsWhere(atBegin.nodes, "nodehandle", last'.arg) = {})
            => ~last'.ret]_vars

\* C5 witness: an abort() rolled rows back to a state with a node, a user and a slot.
C5_Witness ==
    /\ last.op = "abort"
    /\ bracket = "aborted"
    /\ last.val = 1
    /\ mem.nodes # {}
    /\ mem.users # {}
    /\ Slot(mem, 0) # {}

\* C6: right after truncate() no handle has a node row, every parent counts 0
\* children and no selector has a row to scan; a getnodebyhandle or a
\* getnumchildrenquery that follows says so, a cursor started then has nothing to
\* visit, and an advance of a cursor with nothing to visit reports exhaustion.
RewindCalls == {"rewinduser", "rewindpcr", "rewindhandleschildren",
                "rewindhandlesencryptednodes", "rewindhandlesoutshares(ph)",
                "rewindhandlesoutshares", "rewindhandlespendingshares(ph)",
                "rewindhandlespendingshares"}

C6_TruncateEmpties ==
    [][/\ (last'.op = "truncate" /\ last'.ret)
            => /\ \A h \in Handles : RowsWhere(mem'.nodes, "nodehandle", h) = {}
               /\ \A ph \in ParentHandles : NumChildren(ph)' = 0
               /\ \A sel \in Selectors, ph \in ParentHandles : Scanned(sel, ph)' = {}
       /\ (last.op = "truncate" /\ last.ret /\ last'.op = "getnodebyhandle")
            => ~last'.ret
       /\ (last.op = "truncate" /\ last.ret /\ last'.op = "getnumchildrenquery")
            => (last'.ret /\ last'.val = 0)
       /\ (last.op = "truncate" /\ last.ret /\ last'.op \in RewindCalls)
            => (pStmt' # NoStmt /\ Remaining' = {})
       /\ (db = "open" /\ pStmt # NoStmt /\ Remaining = {}
             /\ last'.op \in {"next", "nexthandle"})
            => (~last'.ret /\ pStmt' = NoStmt)]_vars

\* C6 witness: truncate() ran on a store with at least three rows while a cursor
\* was active.
C6_Witness ==
    /\ last.op = "truncate"
    /\ last.ret
    /\ last.val >= 3
    /\ pStmt # NoStmt

C8_RemovedIsUnusable ==
    [][db = NULL
          => /\ ~last'.ret
             /\ schema' = schema
             /\ disk' = disk
             /\ mem' = mem
             /\ inTxn' = inTxn
             /\ stmts' = stmts
             /\ db' = IF last'.op = "destroy" THEN "none" ELSE NULL
             /\ pStmt' = IF last'.op = "destroy" THEN NoStmt ELSE pStmt]_vars

\* C8 witness: a call was refused on an instance removed while its cursor was set,
\* and the file is gone.
C8_Witness ==
    /\ db = NULL
    /\ last.op = "putnode"
    /\ ~last.ret
    /\ pStmt # NoStmt
    /\ ~schema

\* C10: the instance owns at most one cursor statement that is not finalized.
C10_OneCursorStatement == db = "open" => stmts <= 1

\* C7: after truncate(), getscsn and getrootnode(i), i in 1..3, return absent.
C7_TruncateClearsSlots ==
    [][(last.op = "truncate" /\ last.ret /\ last'.op \in SlotGets /\ last'.arg \in 0..3)
          => ~last'.ret]_vars

\* C11: the cursor is idle (pStmt = NULL) or active. Only a rewind makes it
\* active. On an active cursor next()/nexthandle() returns a row and stays active
\* with the same selector, or finds none, returns false, finalizes the statement
\* and leaves the cursor idle; with no row written since the rewind it finds none
\* exactly when every row of the selector has been returned. On an idle cursor
\* the two calls return false and change neither rows, statements nor the state.
Advances == {"next", "nexthandle"}
RowsOf(y) == {y[i].row : i \in 1..Len(y)}

C11_CursorStateMachine ==
    [][/\ (db = "open" /\ pStmt # NoStmt /\ last'.op \in Advances)
            => /\ last'.ret => (pStmt' # NoStmt /\ pStmt'.sel = pStmt.sel
                                  /\ pStmt'.ph = pStmt.ph /\ stmts' = stmts)
               /\ ~last'.ret => (pStmt' = NoStmt /\ stmts' = stmts - 1)
               /\ ~stale => (last'.ret <=>
                               RowsOf(yielded) # {x[1] : x \in Scanned(pStmt.sel, pStmt.ph)})
               /\ mem' = mem /\ disk' = disk
       /\ (db = "open" /\ pStmt = NoStmt /\ last'.op \in Advances)
            => (~last'.ret /\ pStmt' = NoStmt /\ stmts' = stmts
                  /\ mem' = mem /\ disk' = disk /\ inTxn' = inTxn)
       /\ (db = "open" /\ db' = "open" /\ pStmt = NoStmt /\ pStmt' # NoStmt)
            => last'.op \in RewindCalls
       /\ (db = "open" /\ db' = "open" /\ pStmt # NoStmt /\ pStmt' = NoStmt)
            => (last'.op \in Advances /\ ~last'.ret)]_vars

\* C11 witness: next() on a user cursor that had returned its row found no
\* further row and finalized the statement: the cursor is idle again.
C11_Witness ==
    /\ db = "open"
    /\ last.op = "next"
    /\ ~last.ret
    /\ last.val = 1
    /\ last.data = "user"
    /\ Len(yielded) = 1
    /\ pStmt = NoStmt

\* C12: the destructor of a Table that was not removed keeps the file and all that
\* was committed; when no transaction is open that is all the connection saw;
\* when a transaction is open that begin() opened, and only puts, deletes and
\* reads followed, it is the rows as they were at that begin(). An open() that
\* follows returns a Table that sees exactly those rows.
C12_DestroyRollsBack ==
    [][/\ (db = "open" /\ last'.op = "destroy")
            => /\ schema' = schema
               /\ disk' = disk
               /\ ~inTxn => disk' = mem
               /\ (inTxn /\ bracket = "clean") => (bracket' = "aborted" /\ disk' = atBegin)
       /\ (last.op = "destroy" /\ last.ret /\ last'.op = "open" /\ last'.ret)
            => /\ mem' = disk
               /\ disk' = disk
               /\ ~inTxn'
               /\ bracket = "aborted" => mem' = atBegin]_vars

\* C12 witness: a Table was destroyed inside a transaction opened after slot 0
\* had been committed; the rollback of the destructor took rows back.
C12_Witness ==
    /\ last.op = "destroy"
    /\ last.data = "rollback"
    /\ bracket = "aborted"
    /\ Slot(atBegin, 0) # {}
    /\ atBegin.nodes = {}
    /\ disk = atBegin

\* C13: when the destructor or remove() has run on an open Table, no statement
\* of its connection is left un-finalized and sqlite3_close was not refused.
C13_ExitReleasesAll ==
    (last.op \in {"destroy", "remove"} /\ last.ret) => (stmts = 0 /\ last.val = 0)

\* C14: every handle nexthandle() returns from a cursor started by
\* rewindhandlesoutshares(P) is that of a node with parent P and share state 1
\* or 4, and from one started by rewindhandlespendingshares(P) that of a node
\* with parent P and share state 3 or 4 (no row written since the rewind).
C14_ShareSelectorsScoped ==
    [][(db = "open" /\ ~stale /\ last'.op = "nexthandle" /\ last'.ret
          /\ pStmt.sel \in {"outshares_ph", "pendingshares_ph"})
          => \E r \in mem.nodes :
                /\ r.nodehandle = last'.val
                /\ r.parenthandle = pStmt.ph
                /\ r.shared \in (IF pStmt.sel = "outshares_ph" THEN {1, 4} ELSE {3, 4})]_vars

\* C15: an open() on a store without the table init returns a Table only with
\* slots 4 and 5 both persisted; it returns none when sqlite3_open, the creation
\* of one of the four tables or the insert of slot 4 or slot 5 fails.
C15_OpenAllOrNothing ==
    [][(last'.op = "open" /\ ~schema)
          => /\ last'.ret => (Slot(disk', 4) # {} /\ Slot(disk', 5) # {})
             /\ last'.ret <=> db' = "open"]_vars

\* C16: for every parent P the folders counted under P are the stored nodes with
\* parent P whose latest putnode passed an empty fingerprint, and the files
\* counted those whose latest putnode passed a non-empty one; the two count calls
\* return these numbers. With folder 1 under 0 and file 2 under 1:
\* folders(0) = 1, files(0) = 0, children(1) = 1, files(1) = 1.
PutAs(ph, kind) == Cardinality({r \in mem.nodes : r.parenthandle = ph /\ r.node = kind})
FolderAndFile ==
    /\ Cardinality(mem.nodes) = 2
    /\ \E r \in mem.nodes : r.nodehandle = 1 /\ r.parenthandle = 0 /\ r.node = "folder"
    /\ \E r \in mem.nodes : r.nodehandle = 2 /\ r.parenthandle = 1 /\ r.node = "file"

C16_FolderIsEmptyFingerprint ==
    db = "open" =>
      /\ \A ph \in ParentHandles :
            /\ NumChildFolders(ph) = PutAs(ph, "folder")
            /\ NumChildFiles(ph) = PutAs(ph, "file")
      /\ last.op = "getnumchildfoldersquery"
            => (last.ret /\ last.val = PutAs(last.arg, "folder"))
      /\ last.op = "getnumchildfilesquery"
            => (last.ret /\ last.val = PutAs(last.arg, "file"))
      /\ FolderAndFile
            => /\ (last.op = "getnumchildfoldersquery" /\ last.arg = 0) => last.val = 1
               /\ (last.op = "getnumchildfilesquery" /\ last.arg = 0) => last.val = 0
               /\ (last.op = "getnumchildrenquery" /\ last.arg = 1) => last.val = 1
               /\ (last.op = "getnumchildfilesquery" /\ last.arg = 1) => last.val = 1

\* C16 witness: folder 1 under 0 and file 2 under 1 are stored and the files
\* under 1 have been counted.
C16_Witness ==
    /\ FolderAndFile
    /\ last.op = "getnumchildfilesquery"
    /\ last.arg = 1
    /\ last.val = 1

\* C17: remove() on an open Table, whatever its cursor and transaction, leaves no
\* file: no table init and no committed row. Nothing brings them back before the
\* next open(), and that open() finds no table init, returns a Table whose nodes,
\* users, pcrs and slots 0..3 are empty, and has provisioned slots 4 and 5 anew.
C17_RemoveDestroysStore ==
    [][/\ (db = "open" /\ last'.op = "remove")
            => (db' = NULL /\ ~schema' /\ disk' = EmptyTables)
       /\ (db = NULL /\ last'.op # "open")
            => (~schema' /\ disk' = EmptyTables)
       /\ (db = "none" /\ ~schema /\ last'.op # "open")
            => (~schema' /\ disk' = EmptyTables)
       /\ (last'.op = "open" /\ ~schema /\ last'.ret)
            => /\ last'.val = 0
               /\ mem'.nodes = {} /\ mem'.users = {} /\ mem'.pcrs = {}
               /\ \A i \in 0..3 : Slot(mem', i) = {}
               /\ \E hk \in HandleKeys : Slot(mem', 4) = {KeyRow(4, hk)}
               /\ \E hk \in HandleKeys : Slot(mem', 5) = {KeyRow(5, hk)}
               /\ disk' = mem' /\ ~inTxn' /\ pStmt' = NoStmt]_vars

\* C17 witness: remove() ran on a Table with an active cursor, a leaked statement
\* and an open transaction holding uncommitted rows; the file is gone.
C17_Witness ==
    /\ last.op = "remove"
    /\ last.ret
    /\ last.data = "rollback"
    /\ last.val = 1
    /\ pStmt # NoStmt
    /\ ~schema
    /\ disk = EmptyTables

\* C18: a begin() inside a transaction changes no row, committed or seen, and
\* leaves the transaction open. A commit() inside a transaction, whatever begin()
\* calls it held, commits the rows as the connection sees them; an abort() there
\* brings back the rows as they were at the begin() that opened it. commit() and
\* abort() outside a transaction change no row and open none.
C18_NestedBeginAbsorbed ==
    [][/\ (db = "open" /\ inTxn /\ last'.op = "begin")
            => (mem' = mem /\ disk' = disk /\ inTxn' /\ atBegin' = atBegin)
       /\ (db = "open" /\ inTxn /\ last'.op = "commit")
            => (mem' = mem /\ disk' = mem /\ ~inTxn')
       /\ (db = "open" /\ inTxn /\ last'.op = "abort")
            => (mem' = atBegin /\ disk' = atBegin /\ ~inTxn')
       /\ (db = "open" /\ ~inTxn /\ last'.op \in {"commit", "abort"})
            => (mem' = mem /\ disk' = disk /\ ~inTxn')]_vars

\* C18 witness: an abort() ended a transaction that held a second begin(), and
\* took rows back to those at the first begin(), a node among them.
C18_Witness ==
    /\ last.op = "abort"
    /\ last.val = 1
    /\ bracket = "aborted-mixed"
    /\ mem = atBegin
    /\ mem.nodes # {}

\* C19: a successful putpcr(id, p) leaves exactly one pcr row for id, holding p,
\* and a successful delpcr(id) none, each leaving the rows of the other ids as
\* they were; delpcr of an id with no row succeeds and changes nothing; no other
\* call changes a pcr row. When next() exhausts a cursor started by rewindpcr(),
\* no row written since, the payloads returned are those of the stored rows,
\* one for each id, and the statement is gone.
Others(m, id) == {r \in m.pcrs : r.id # id}
PairsOf(y) == {<<y[i].row, y[i].data>> : i \in 1..Len(y)}

C19_PcrPutDeleteWalk ==
    [][/\ (last'.op = "putpcr" /\ last'.ret)
            => /\ RowsWhere(mem'.pcrs, "id", last'.arg)
                    = {[id |-> last'.arg, pcr |-> last'.data]}
               /\ Others(mem', last'.arg) = Others(mem, last'.arg)
       /\ (last'.op = "delpcr" /\ last'.ret)
            => /\ RowsWhere(mem'.pcrs, "id", last'.arg) = {}
               /\ Others(mem', last'.arg) = Others(mem, last'.arg)
       /\ (db = "open" /\ last'.op = "delpcr" /\ RowsWhere(mem.pcrs, "id", last'.arg) = {})
            => (last'.ret /\ mem' = mem /\ disk' = disk)
       /\ (db = "open" /\ last'.op \notin {"putpcr", "delpcr"}) => mem'.pcrs = mem.pcrs
       /\ (last'.op \in {"putpcr", "delpcr"} /\ ~last'.ret) => mem'.pcrs = mem.pcrs
       /\ (last'.op = "next" /\ ~last'.ret /\ last'.val = 1
             /\ last'.data = "pcr" /\ ~stale')
            => /\ PairsOf(yielded') = {<<r.id, r.pcr>> : r \in mem'.pcrs}
               /\ Len(yielded') = Cardinality(mem'.pcrs)
               /\ pStmt' = NoStmt]_vars

\* C19 witness: a pcr cursor returned the one stored payload, "p2" of the
\* highest id, and was exhausted by the next() after it.
C19_Witness ==
    /\ last.op = "next"
    /\ ~last.ret
    /\ last.val = 1
    /\ last.data = "pcr"
    /\ ~stale
    /\ Len(yielded) = 1
    /\ yielded[1].data = "p2"
    /\ yielded[1].row = MaxHandle

\* C20: readhkey() on an open Table changes no row of the four tables, committed
\* or seen, neither the file's tables, the transaction nor the cursor statement
\* and its position; it returns true exactly when slot 4 and slot 5 both have a
\* row, and what getrootnode(4) and getrootnode(5) return is as before.
C20_ReadhkeyPureRead ==
    [][/\ (db = "open" /\ last'.op = "readhkey")
            => /\ mem' = mem /\ disk' = disk /\ schema' = schema
               /\ inTxn' = inTxn /\ pStmt' = pStmt /\ stmts' = stmts
               /\ last'.ret <=> (Slot(mem, 4) # {} /\ Slot(mem, 5) # {})
       /\ (last.op = "readhkey" /\ ~last.ret /\ db = "open"
             /\ last'.op = "getrootnode" /\ last'.arg \in {4, 5})
            => (last'.ret <=> Slot(mem, last'.arg) # {})]_vars

\* C20 witness: readhkey() failed on a Table with slot 4 but no slot 5, while a
\* cursor had returned a row and was still active.
C20_Witness ==
    /\ db = "open"
    /\ last.op = "readhkey"
    /\ ~last.ret
    /\ Slot(mem, 4) # {}
    /\ Slot(mem, 5) = {}
    /\ pStmt # NoStmt
    /\ pStmt.pos = 1

\* C21: readhkey() called on a Table right after the open() that returned it
\* succeeds, whatever open() calls, failed ones among them, came before.
C21_OpenedTableHasKeys ==
    [][(last.op = "open" /\ last.ret /\ db = "open" /\ last'.op = "readhkey")
          => last'.ret]_vars

\* C22: no call on an open Table changes the row of slot 4 or of slot 5, as the
\* connection sees them or as committed.
C22_KeySlotsOnlyByBootstrap ==
    [][(db = "open" /\ db' = "open")
          => \A i \in {4, 5} :
                /\ Slot(mem', i) = Slot(mem, i)
                /\ Slot(disk', i) = Slot(disk, i)]_vars

====
